---------------------------- MODULE Spec2Model ----------------------------
(***************************************************************************)
(* A model of src/mod.ts: a cross-platform clipboard that shells out to    *)
(* xsel/xclip, pbpaste/pbcopy or powershell.                               *)
(*                                                                         *)
(* Text is a sequence of Unicode code points (BMP only), a byte stream a   *)
(* sequence of integers 0..255.  An error message is the pair              *)
(* <<prefix, cause>> of the template literal that builds it.  The result   *)
(* of a call is a record with tag "return" or "throw".                     *)
(*                                                                         *)
(* Three specifications share the variables:                               *)
(*   SpecPost  lines 76-82 of readText applied to captured bytes           *)
(*   SpecInit  module initialisation, the facade and the exported bindings *)
(*   Spec      readText / writeText against the OS clipboard               *)
(***************************************************************************)
EXTENDS Integers, Sequences, FiniteSets, TLC

VARIABLES
    \* ---- SpecPost: one evaluation of readText's decode / post-process
    ppImpl,        \* the ClipboardImplementation readText runs on
    ppStdout,      \* the bytes command.output() captured
    ppText,        \* what readText returns
    ppDone,        \* whether lines 76-82 have run
    \* ---- SpecInit: module initialisation
    os,            \* Deno.build.os
    hostHandles,   \* the embedding program cancels unhandled rejections
    pc,            \* position of the async block of lines 141-149
    xselRead,      \* result of the probe of line 120
    xselWrite,     \* result of the probe of line 123
    implementations, \* const implementations (line 142)
    clipboard,     \* let clipboard (line 137)
    readText,      \* let readText (line 138): the exported binding
    writeText,     \* let writeText (line 139): the exported binding
    warned,        \* console.warn of line 144 was called
    alive,         \* the process is running
    constructed,   \* how many times new Clipboard(...) returned a facade
    construction,  \* result of the constructor call of line 146
    lastProbe,     \* the commandExists call that finished last
    calls,         \* log of calls an importer made through the exports
    \* ---- Spec: the process-pipe executor
    impl,          \* the implementation bound in the facade
    clip,          \* content of the OS clipboard
    wpc,           \* per writeText call: where it is
    wdata,         \* per writeText call: its argument
    stdin,         \* per writeText call: bytes the child has been sent
    child,         \* per writeText call: state of the write command
    wres,          \* per writeText call: its result
    wfail,         \* per writeText call: the step the host made fail
    wover,         \* per writeText call: it overlapped another writeText
    lastExit,      \* the write command that terminated last
    lastDone,      \* the writeText call that returned last
    rpc,           \* the readText call: where it is
    rchild,        \* the read command: exit code and captured stdout
    rres,          \* the readText call: its result
    rbase,         \* what the clipboard held for the readText in flight
    ncalls         \* calls started so far

postVars == <<ppImpl, ppStdout, ppText, ppDone>>
initVars == <<os, hostHandles, pc, xselRead, xselWrite, implementations,
              clipboard, readText, writeText, warned, alive, constructed,
              construction, lastProbe, calls>>
ioVars   == <<impl, clip, wpc, wdata, stdin, child, wres, wfail, wover, lastExit,
              lastDone, rpc, rchild, rres, rbase, ncalls>>
vars     == <<postVars, initVars, ioVars>>

---------------------------------------------------------------------------
(* Bounds of the model *)

MaxStdoutLen == 4     \* longest captured byte stream in SpecPost
MaxExitCode  == 1     \* exit codes of a probe are 0..MaxExitCode
MaxCalls     == 2     \* calls an importer makes through the exports
MaxIOCalls   == 2     \* readText / writeText calls started in Spec

(* Characters and bytes *)

CR == 13
LF == 10
BOM == 65279
Replacement == 65533

Undefined == "undefined"
None == "none"

\* a binding that holds no value yet, no implementation, no error
Unbound == [defined |-> FALSE]
NoImpl == [os |-> None]
NoError == <<>>

---------------------------------------------------------------------------
(* OperatingSystem, lines 3-11 *)

OperatingSystem ==
    {"windows", "linux", "darwin", "freebsd", "netbsd", "aix", "solaris",
     "illumos"}

---------------------------------------------------------------------------
(* TextEncoder / TextDecoder, lines 46-47: UTF-8 of the BMP *)

IsSurrogate(c) == c >= 55296 /\ c <= 57343

\* encoder.encode of one code unit; a lone surrogate is encoded as U+FFFD
EncodeChar(c) ==
    LET u == IF IsSurrogate(c) THEN Replacement ELSE c IN
    IF u < 128 THEN <<u>>
    ELSE IF u < 2048 THEN <<192 + (u \div 64), 128 + (u % 64)>>
    ELSE <<224 + (u \div 4096), 128 + ((u \div 64) % 64), 128 + (u % 64)>>

RECURSIVE Encode(_)
Encode(text) ==
    IF text = <<>> THEN <<>>
    ELSE EncodeChar(Head(text)) \o Encode(Tail(text))

IsCont(b) == b >= 128 /\ b <= 191

\* lower and upper bound of the second byte of a three-byte sequence
SecondLo(lead) == IF lead = 224 THEN 160 ELSE 128
SecondHi(lead) == IF lead = 237 THEN 159 ELSE 191

\* One step of the decoder at the head of bytes: <<code point, bytes eaten>>.
\* A malformed or truncated sequence yields U+FFFD and eats the bytes that
\* were well-formed so far.  Leads of four-byte sequences are outside of
\* the byte alphabets used here.
DecodeStep(bytes) ==
    LET b == bytes[1]
        n == Len(bytes)
    IN  IF b < 128 THEN <<b, 1>>
        ELSE IF b >= 194 /\ b <= 223 THEN
            IF n >= 2 /\ IsCont(bytes[2])
            THEN <<(b - 192) * 64 + (bytes[2] - 128), 2>>
            ELSE <<Replacement, 1>>
        ELSE IF b >= 224 /\ b <= 239 THEN
            IF ~(n >= 2 /\ bytes[2] >= SecondLo(b) /\ bytes[2] <= SecondHi(b))
            THEN <<Replacement, 1>>
            ELSE IF ~(n >= 3 /\ IsCont(bytes[3]))
            THEN <<Replacement, 2>>
            ELSE <<(b - 224) * 4096 + (bytes[2] - 128) * 64
                     + (bytes[3] - 128), 3>>
        ELSE <<Replacement, 1>>

RECURSIVE DecodeRaw(_)
DecodeRaw(bytes) ==
    IF bytes = <<>> THEN <<>>
    ELSE LET s == DecodeStep(bytes)
         IN  <<s[1]>> \o DecodeRaw(SubSeq(bytes, s[2] + 1, Len(bytes)))

\* decoder.decode: new TextDecoder() has ignoreBOM false, so a leading
\* byte order mark is not part of the text
Decode(bytes) ==
    LET t == DecodeRaw(bytes)
    IN  IF t # <<>> /\ t[1] = BOM THEN Tail(t) ELSE t

---------------------------------------------------------------------------
(* The post-processing function of the windows entry, line 132 *)

\* data.replace(/\r/g, "")
RemoveFirstCR(data) ==
    IF \E i \in 1..Len(data) : data[i] = CR
    THEN LET i == CHOOSE k \in 1..Len(data) :
                      data[k] = CR /\ \A j \in 1..(k - 1) : data[j] # CR
         IN  SubSeq(data, 1, i - 1) \o SubSeq(data, i + 1, Len(data))
    ELSE data

RemoveAllCR(data) == SelectSeq(data, LAMBDA c : c # CR)

\* .replace(/\n$/, ""): without the m flag $ is the end of the input
RemoveTrailingLF(data) ==
    IF Len(data) > 0 /\ data[Len(data)] = LF
    THEN SubSeq(data, 1, Len(data) - 1)
    ELSE data

windowsPostProcess(data) == RemoveTrailingLF(RemoveAllCR(data))

\* this.postProcess(text): the entry holds the name of its function
postProcess(entry, text) ==
    IF entry.postProcess = "windowsPostProcess"
    THEN windowsPostProcess(text)
    ELSE text

---------------------------------------------------------------------------
(* ClipboardImplementation, lines 49-65, and getImplementations, 116-135 *)

ClipboardImplementation(o, readCommand, writeCommand, post) ==
    [os |-> o, readCommand |-> readCommand, writeCommand |-> writeCommand,
     postProcess |-> post]

\* hasXselRead, hasXselWrite: what the two awaits of commandExists("xsel")
\* of lines 120 and 123 returned
getImplementations(hasXselRead, hasXselWrite) ==
    [o \in {"linux", "darwin", "windows"} |->
        CASE o = "linux" ->
               ClipboardImplementation("linux",
                   IF hasXselRead THEN <<"xsel", "-b", "-o">>
                   ELSE <<"xclip", "-selection", "clipboard", "-o">>,
                   IF hasXselWrite THEN <<"xsel", "-b", "-i">>
                   ELSE <<"xclip", "-selection", "clipboard", "-i">>,
                   Undefined)
          [] o = "darwin" ->
               ClipboardImplementation("darwin", <<"pbpaste">>, <<"pbcopy">>,
                   Undefined)
          [] o = "windows" ->
               ClipboardImplementation("windows",
                   <<"powershell", "-noprofile", "-command", "Get-Clipboard">>,
                   <<"powershell", "-noprofile", "-command",
                     "$input|Set-Clipboard">>,
                   "windowsPostProcess")]

\* every entry getImplementations can produce
Entries ==
    {getImplementations(r, w)[o] :
        r \in BOOLEAN, w \in BOOLEAN, o \in {"linux", "darwin", "windows"}}

---------------------------------------------------------------------------
(* readText, lines 76-82: from the captured stdout to the returned text *)

\* readText without lines 78-80
readTextNoPostProcess(entry, stdout) == Decode(stdout)

readTextResult(entry, stdout) ==
    LET text == Decode(stdout)
    IN  IF entry.postProcess # Undefined
        THEN postProcess(entry, text)
        ELSE text


---------------------------------------------------------------------------
(* SpecPost: lines 76-82 on every short byte stream *)

\* CR, LF, "h", and the two bytes of U+00E9
PostBytes == {CR, LF, 104, 195, 169}

RECURSIVE SeqsUpTo(_, _)
SeqsUpTo(S, n) ==
    IF n = 0 THEN {<<>>}
    ELSE LET shorter == SeqsUpTo(S, n - 1)
         IN  shorter \cup {Append(q, x) : q \in {r \in shorter : Len(r) = n - 1},
                                          x \in S}

PostIdle ==
    /\ ppImpl = NoImpl
    /\ ppStdout = <<>>
    /\ ppText = <<>>
    /\ ppDone = FALSE

PostInit ==
    /\ ppImpl \in Entries
    /\ ppStdout \in SeqsUpTo(PostBytes, MaxStdoutLen)
    /\ ppText = <<>>
    /\ ppDone = FALSE

DecodeAndPostProcess ==
    /\ ~ppDone
    /\ ppText' = readTextResult(ppImpl, ppStdout)
    /\ ppDone' = TRUE
    /\ UNCHANGED <<ppImpl, ppStdout, initVars, ioVars>>

---------------------------------------------------------------------------
(* commandExists, lines 14-34 *)

Commands == {"xsel", "no-such-command"}

\* how the host ends the probing process: it cannot be spawned, or it
\* exits with a code
ProbeOutcomes ==
    {[spawned |-> FALSE, code |-> -1]}
        \cup {[spawned |-> TRUE, code |-> c] : c \in 0..MaxExitCode}

\* lines 16-27
checkCommand(o, command) ==
    IF o = "windows" THEN <<"where", command>> ELSE <<"which", command>>

\* checkCommand.output(), line 29
output(outcome) ==
    IF outcome.spawned
    THEN [tag |-> "return", code |-> outcome.code]
    ELSE [tag |-> "throw", code |-> -1]

\* commandExists without its catch clause
commandExistsNoCatch(outcome) ==
    LET r == output(outcome)
    IN  IF r.tag = "throw"
        THEN [tag |-> "throw", value |-> FALSE]
        ELSE [tag |-> "return", value |-> (r.code = 0)]

commandExists(outcome) ==
    LET r == output(outcome)
    IN  IF r.tag = "throw"
        THEN [tag |-> "return", value |-> FALSE]
        ELSE [tag |-> "return", value |-> (r.code = 0)]

Probe(command, outcome) ==
    [command |-> checkCommand(os, command), outcome |-> outcome,
     result |-> commandExists(outcome)]

---------------------------------------------------------------------------
(* Clipboard, lines 153-171, and module initialisation, lines 137-151 *)

NoResult == [tag |-> None, error |-> NoError, impl |-> NoImpl]
NoProbe == [command |-> <<>>, outcome |-> [spawned |-> FALSE, code |-> -1],
            result |-> [tag |-> None, value |-> FALSE]]

\* the constructor without the check of lines 158-160
ClipboardUnchecked(o, registry) ==
    [tag |-> "return", error |-> NoError,
     impl |-> IF o \in DOMAIN registry THEN registry[o] ELSE NoImpl]

\* new Clipboard(os, implementations)
Clipboard(o, registry) ==
    IF o \notin DOMAIN registry
    THEN [tag |-> "throw", error |-> <<"Clipboard: unsupported OS: ", o>>,
          impl |-> NoImpl]
    ELSE [tag |-> "return", error |-> NoError, impl |-> registry[o]]

\* calling an exported binding: a bound method delegates to this.impl,
\* an undefined binding is not callable
Invoke(binding, name) ==
    IF ~binding.defined
    THEN [tag |-> "throw", error |-> <<"TypeError", name, "is not a function">>,
          impl |-> NoImpl]
    ELSE [tag |-> "delegated", error |-> NoError, impl |-> binding.this.impl]

InitIdle ==
    /\ os = "linux"
    /\ hostHandles = FALSE
    /\ pc = "idle"
    /\ xselRead = FALSE
    /\ xselWrite = FALSE
    /\ implementations = <<>>
    /\ clipboard = Unbound
    /\ readText = Unbound
    /\ writeText = Unbound
    /\ warned = FALSE
    /\ alive = TRUE
    /\ constructed = 0
    /\ construction = NoResult
    /\ lastProbe = NoProbe
    /\ calls = <<>>

\* The module has been evaluated: the async block ran up to its first
\* await (line 29, reached through lines 142 and 120); the three let
\* bindings are still undefined.
ModuleInit ==
    /\ os \in OperatingSystem
    /\ hostHandles \in BOOLEAN
    /\ pc = "probeRead"
    /\ xselRead = FALSE
    /\ xselWrite = FALSE
    /\ implementations = <<>>
    /\ clipboard = Unbound
    /\ readText = Unbound
    /\ writeText = Unbound
    /\ warned = FALSE
    /\ alive = TRUE
    /\ constructed = 0
    /\ construction = NoResult
    /\ lastProbe = NoProbe
    /\ calls = <<>>

\* line 120: the first commandExists("xsel") settles
ProbeRead(outcome) ==
    /\ alive
    /\ pc = "probeRead"
    /\ lastProbe' = Probe("xsel", outcome)
    /\ IF lastProbe'.result.tag = "throw"
       THEN pc' = "rejected" /\ UNCHANGED xselRead
       ELSE pc' = "probeWrite" /\ xselRead' = lastProbe'.result.value
    /\ UNCHANGED <<os, hostHandles, xselWrite, implementations, clipboard,
                   readText, writeText, warned, alive, constructed,
                   construction, calls, postVars, ioVars>>

\* line 123: the second commandExists("xsel") settles and
\* getImplementations returns the registry
ProbeWrite(outcome) ==
    /\ alive
    /\ pc = "probeWrite"
    /\ lastProbe' = Probe("xsel", outcome)
    /\ IF lastProbe'.result.tag = "throw"
       THEN pc' = "rejected" /\ UNCHANGED <<xselWrite, implementations>>
       ELSE /\ pc' = "resolved"
            /\ xselWrite' = lastProbe'.result.value
            /\ implementations' =
                   getImplementations(xselRead, lastProbe'.result.value)
    /\ UNCHANGED <<os, hostHandles, xselRead, clipboard, readText, writeText,
                   warned, alive, constructed, construction, calls, postVars,
                   ioVars>>

\* lines 143-148, which run without an await between them
InitBlock ==
    /\ alive
    /\ pc = "resolved"
    /\ warned' = (os \notin DOMAIN implementations)
    /\ construction' = Clipboard(os, implementations)
    /\ IF construction'.tag = "throw"
       THEN /\ pc' = "rejected"
            /\ UNCHANGED <<clipboard, readText, writeText, constructed>>
       ELSE /\ pc' = "ready"
            /\ clipboard' = [defined |-> TRUE, impl |-> construction'.impl]
            /\ readText' = [defined |-> TRUE, method |-> "readText",
                            this |-> clipboard']
            /\ writeText' = [defined |-> TRUE, method |-> "writeText",
                             this |-> clipboard']
            /\ constructed' = constructed + 1
    /\ UNCHANGED <<os, hostHandles, xselRead, xselWrite, implementations,
                   alive, lastProbe, calls, postVars, ioVars>>

\* Nothing awaits or catches the promise of the async block (line 149):
\* its rejection is unhandled, which ends a Deno process unless the
\* embedding program cancels the unhandledrejection event.
UnhandledRejection ==
    /\ alive
    /\ pc = "rejected"
    /\ pc' = "reported"
    /\ alive' = hostHandles
    /\ UNCHANGED <<os, hostHandles, xselRead, xselWrite, implementations,
                   clipboard, readText, writeText, warned, constructed,
                   construction, lastProbe, calls, postVars, ioVars>>

\* an importer calls the exported readText (line 151)
CallReadText ==
    /\ alive
    /\ Len(calls) < MaxCalls
    /\ calls' = Append(calls, [op |-> "readText", at |-> pc,
                               result |-> Invoke(readText, "readText")])
    /\ UNCHANGED <<os, hostHandles, pc, xselRead, xselWrite, implementations,
                   clipboard, readText, writeText, warned, alive, constructed,
                   construction, lastProbe, postVars, ioVars>>

\* an importer calls the exported writeText (line 151)
CallWriteText ==
    /\ alive
    /\ Len(calls) < MaxCalls
    /\ calls' = Append(calls, [op |-> "writeText", at |-> pc,
                               result |-> Invoke(writeText, "writeText")])
    /\ UNCHANGED <<os, hostHandles, pc, xselRead, xselWrite, implementations,
                   clipboard, readText, writeText, warned, alive, constructed,
                   construction, lastProbe, postVars, ioVars>>

\* an importer calls the exported commandExists (line 14)
CallCommandExists(command, outcome) ==
    /\ alive
    /\ lastProbe' = Probe(command, outcome)
    /\ UNCHANGED <<os, hostHandles, pc, xselRead, xselWrite, implementations,
                   clipboard, readText, writeText, warned, alive, constructed,
                   construction, calls, postVars, ioVars>>

---------------------------------------------------------------------------
(* The process-pipe executor: readText, lines 67-90, writeText, 92-112 *)

\* the two writeText calls that may be in flight at once
Writers == {"A", "B"}

\* "hello world", "A", "B"
HelloWorld == <<104, 101, 108, 108, 111, 32, 119, 111, 114, 108, 100>>
WriteTexts == {HelloWorld, <<65>>, <<66>>}

\* what the clipboard holds before the first call: "old"
OldText == <<111, 108, 100>>

NoCall == [tag |-> None, value |-> <<>>, error |-> NoError]
NoWrite == [writer |-> None, data |-> <<>>, overlapped |-> FALSE, code |-> -1]
NoChild == [state |-> None, code |-> -1]

\* The write command, once it has read its input to the end, replaces the
\* content of the clipboard by the text it was sent (xsel -b -i,
\* xclip -selection clipboard -i, pbcopy, $input|Set-Clipboard; none of
\* WriteTexts holds a line break, which the last treats specially).
WriteCommandEffect(entry, bytes) == Decode(bytes)

\* The read command prints the content of the clipboard; Get-Clipboard
\* ends it with a CR LF of its own.
ReadCommandOutput(entry, content) ==
    IF entry.os = "windows"
    THEN Encode(content \o <<CR, LF>>)
    ELSE Encode(content)

\* the catch clause of writeText with a message of its own
writeTextErrorOwnMessage(cause) ==
    [tag |-> "throw", value |-> <<>>,
     error |-> <<"Failed to write to clipboard: ", cause>>]

\* lines 105-111
writeTextError(cause) ==
    [tag |-> "throw", value |-> <<>>,
     error |-> <<"Failed to read from clipboard: ", cause>>]

\* lines 83-89
readTextError(cause) ==
    [tag |-> "throw", value |-> <<>>,
     error |-> <<"Failed to read from clipboard: ", cause>>]

\* the error Deno raises for each step that can fail
SpawnError(command) == <<"NotFound", command[1]>>
BrokenPipe == <<"BrokenPipe">>
CloseError == <<"stream errored">>

InFlight(w) == wpc[w] \in {"spawned", "written", "closed"}

IOIdle ==
    /\ impl = NoImpl
    /\ clip = <<>>
    /\ wpc = [w \in Writers |-> "idle"]
    /\ wdata = [w \in Writers |-> <<>>]
    /\ stdin = [w \in Writers |-> [bytes |-> <<>>, closed |-> FALSE]]
    /\ child = [w \in Writers |-> NoChild]
    /\ wres = [w \in Writers |-> NoCall]
    /\ wfail = [w \in Writers |-> None]
    /\ wover = [w \in Writers |-> FALSE]
    /\ lastExit = None
    /\ lastDone = NoWrite
    /\ rpc = "idle"
    /\ rchild = [code |-> -1, stdout |-> <<>>]
    /\ rres = NoCall
    /\ rbase = [quiet |-> FALSE, last |-> NoWrite]
    /\ ncalls = 0

\* a facade bound to any entry getImplementations can produce
IOInit ==
    /\ impl \in Entries
    /\ clip = OldText
    /\ wpc = [w \in Writers |-> "idle"]
    /\ wdata = [w \in Writers |-> <<>>]
    /\ stdin = [w \in Writers |-> [bytes |-> <<>>, closed |-> FALSE]]
    /\ child = [w \in Writers |-> NoChild]
    /\ wres = [w \in Writers |-> NoCall]
    /\ wfail = [w \in Writers |-> None]
    /\ wover = [w \in Writers |-> FALSE]
    /\ lastExit = None
    /\ lastDone = NoWrite
    /\ rpc = "idle"
    /\ rchild = [code |-> -1, stdout |-> <<>>]
    /\ rres = NoCall
    /\ rbase = [quiet |-> FALSE, last |-> NoWrite]
    /\ ncalls = 0

\* lines 93-101: writeText(data) is called and spawns the write command;
\* ok is whether the host can spawn it
WriteSpawn(w, data, ok) ==
    /\ ~InFlight(w)
    /\ ncalls < MaxIOCalls
    /\ ncalls' = ncalls + 1
    /\ wdata' = [wdata EXCEPT ![w] = data]
    /\ stdin' = [stdin EXCEPT ![w] = [bytes |-> <<>>, closed |-> FALSE]]
    /\ IF ok
       THEN /\ wpc' = [wpc EXCEPT ![w] = "spawned"]
            /\ child' = [child EXCEPT ![w] = [state |-> "running", code |-> -1]]
            /\ wres' = [wres EXCEPT ![w] = NoCall]
            /\ wfail' = [wfail EXCEPT ![w] = None]
            /\ wover' = [v \in Writers |->
                            IF v = w THEN \E u \in Writers \ {w} : InFlight(u)
                            ELSE wover[v] \/ InFlight(v)]
            /\ rbase' = [rbase EXCEPT !.quiet = @ /\ rpc # "spawned"]
       ELSE /\ wpc' = [wpc EXCEPT ![w] = "failed"]
            /\ child' = [child EXCEPT ![w] = NoChild]
            /\ wres' = [wres EXCEPT
                           ![w] = writeTextError(SpawnError(impl.writeCommand))]
            /\ wfail' = [wfail EXCEPT ![w] = "spawn"]
            /\ wover' = [wover EXCEPT ![w] = FALSE]
            /\ UNCHANGED rbase
    /\ UNCHANGED <<impl, clip, lastExit, lastDone, rpc, rchild, rres, postVars,
                   initVars>>

\* every call writes to the stdin of the first child
WriteStdinShared(w) ==
    /\ wpc[w] = "spawned"
    /\ IF child[w].state = "exited"
       THEN /\ wpc' = [wpc EXCEPT ![w] = "failed"]
            /\ wres' = [wres EXCEPT ![w] = writeTextError(BrokenPipe)]
            /\ wfail' = [wfail EXCEPT ![w] = "write"]
            /\ UNCHANGED stdin
       ELSE /\ wpc' = [wpc EXCEPT ![w] = "written"]
            /\ stdin' = [stdin EXCEPT !["A"].bytes = @ \o Encode(wdata[w])]
            /\ UNCHANGED <<wres, wfail>>
    /\ UNCHANGED <<impl, clip, wdata, child, wover, lastExit, lastDone, rpc,
                   rchild, rres, rbase, ncalls, postVars, initVars>>

\* line 102: await writer.write(encoder.encode(data)); the pipe is broken
\* when the child has already exited
WriteStdin(w) ==
    /\ wpc[w] = "spawned"
    /\ IF child[w].state = "exited"
       THEN /\ wpc' = [wpc EXCEPT ![w] = "failed"]
            /\ wres' = [wres EXCEPT ![w] = writeTextError(BrokenPipe)]
            /\ wfail' = [wfail EXCEPT ![w] = "write"]
            /\ UNCHANGED stdin
       ELSE /\ wpc' = [wpc EXCEPT ![w] = "written"]
            /\ stdin' = [stdin EXCEPT ![w].bytes = @ \o Encode(wdata[w])]
            /\ UNCHANGED <<wres, wfail>>
    /\ UNCHANGED <<impl, clip, wdata, child, wover, lastExit, lastDone, rpc,
                   rchild, rres, rbase, ncalls, postVars, initVars>>

\* line 103: await writer.close(); ok is whether the host closes the
\* stream, which can fail once the child has exited
CloseStdin(w, ok) ==
    /\ wpc[w] = "written"
    /\ ok \/ child[w].state = "exited"
    /\ IF ok
       THEN /\ wpc' = [wpc EXCEPT ![w] = "closed"]
            /\ stdin' = [stdin EXCEPT ![w].closed = TRUE]
            /\ UNCHANGED <<wres, wfail>>
       ELSE /\ wpc' = [wpc EXCEPT ![w] = "failed"]
            /\ wres' = [wres EXCEPT ![w] = writeTextError(CloseError)]
            /\ wfail' = [wfail EXCEPT ![w] = "close"]
            /\ UNCHANGED stdin
    /\ UNCHANGED <<impl, clip, wdata, child, wover, lastExit, lastDone, rpc,
                   rchild, rres, rbase, ncalls, postVars, initVars>>

\* line 104: await child.status settles once the child has terminated;
\* the status is not looked at
AwaitStatus(w) ==
    /\ wpc[w] = "closed"
    /\ child[w].state = "exited"
    /\ wpc' = [wpc EXCEPT ![w] = "done"]
    /\ wres' = [wres EXCEPT ![w] = [tag |-> "return", value |-> <<>>,
                                    error |-> NoError]]
    /\ lastDone' = [writer |-> w, data |-> wdata[w], overlapped |-> wover[w],
                    code |-> child[w].code]
    /\ UNCHANGED <<impl, clip, wdata, stdin, child, wfail, wover, lastExit,
                   rpc, rchild, rres, rbase, ncalls, postVars, initVars>>

\* the write command has read its input to the end, sets the clipboard
\* and terminates
ChildFinish(w) ==
    /\ child[w].state = "running"
    /\ stdin[w].closed
    /\ clip' = WriteCommandEffect(impl, stdin[w].bytes)
    /\ child' = [child EXCEPT ![w] = [state |-> "exited", code |-> 0]]
    /\ lastExit' = w
    /\ UNCHANGED <<impl, wpc, wdata, stdin, wres, wfail, wover, lastDone, rpc,
                   rchild, rres, rbase, ncalls, postVars, initVars>>

\* the write command fails (no display, no clipboard service) and exits
\* with a non-zero code, the clipboard untouched
ChildCrash(w) ==
    /\ child[w].state = "running"
    /\ child' = [child EXCEPT ![w] = [state |-> "exited", code |-> 1]]
    /\ lastExit' = w
    /\ UNCHANGED <<impl, clip, wpc, wdata, stdin, wres, wfail, wover, lastDone,
                   rpc, rchild, rres, rbase, ncalls, postVars, initVars>>

\* lines 68-75: readText() is called and command.output() spawns the read
\* command; ok is whether the host can spawn it
ReadSpawn(ok) ==
    /\ rpc \in {"idle", "done", "failed"}
    /\ ncalls < MaxIOCalls
    /\ ncalls' = ncalls + 1
    /\ rchild' = [code |-> -1, stdout |-> <<>>]
    /\ IF ok
       THEN /\ rpc' = "spawned"
            /\ rres' = NoCall
            /\ rbase' = [quiet |-> \A w \in Writers : ~InFlight(w),
                         last |-> lastDone]
       ELSE /\ rpc' = "failed"
            /\ rres' = readTextError(SpawnError(impl.readCommand))
            /\ rbase' = [quiet |-> FALSE, last |-> NoWrite]
    /\ UNCHANGED <<impl, clip, wpc, wdata, stdin, child, wres, wfail, wover,
                   lastExit, lastDone, postVars, initVars>>

\* the read command runs: it prints the clipboard and exits with 0, or
\* fails, printing nothing to stdout, and exits with a non-zero code
ReadChildRun(good) ==
    /\ rpc = "spawned"
    /\ rpc' = "exited"
    /\ rchild' = IF good
                 THEN [code |-> 0, stdout |-> ReadCommandOutput(impl, clip)]
                 ELSE [code |-> 1, stdout |-> <<>>]
    /\ UNCHANGED <<impl, clip, wpc, wdata, stdin, child, wres, wfail, wover,
                   lastExit, lastDone, rres, rbase, ncalls, postVars, initVars>>

\* lines 75-82: command.output() settles with { stdout }; code and success
\* are not looked at
ReadReturn ==
    /\ rpc = "exited"
    /\ rpc' = "done"
    /\ rres' = [tag |-> "return",
                value |-> readTextResult(impl, rchild.stdout),
                error |-> NoError]
    /\ UNCHANGED <<impl, clip, wpc, wdata, stdin, child, wres, wfail, wover,
                   lastExit, lastDone, rchild, rbase, ncalls, postVars,
                   initVars>>

---------------------------------------------------------------------------
(* The specifications *)

PostNext == DecodeAndPostProcess

PostSpecInit == PostInit /\ InitIdle /\ IOIdle

SpecPost == PostSpecInit /\ [][PostNext]_vars

InitNext ==
    \/ \E outcome \in ProbeOutcomes : ProbeRead(outcome)
    \/ \E outcome \in ProbeOutcomes : ProbeWrite(outcome)
    \/ InitBlock
    \/ UnhandledRejection
    \/ CallReadText
    \/ CallWriteText
    \/ \E command \in Commands, outcome \in ProbeOutcomes :
           CallCommandExists(command, outcome)

InitSpecInit == PostIdle /\ ModuleInit /\ IOIdle

SpecInit == InitSpecInit /\ [][InitNext]_vars

Init == PostIdle /\ InitIdle /\ IOInit

Next ==
    \/ \E w \in Writers, data \in WriteTexts, ok \in BOOLEAN :
           WriteSpawn(w, data, ok)
    \/ \E w \in Writers : WriteStdin(w)
    \/ \E w \in Writers, ok \in BOOLEAN : CloseStdin(w, ok)
    \/ \E w \in Writers : AwaitStatus(w)
    \/ \E w \in Writers : ChildFinish(w)
    \/ \E w \in Writers : ChildCrash(w)
    \/ \E ok \in BOOLEAN : ReadSpawn(ok)
    \/ \E good \in BOOLEAN : ReadChildRun(good)
    \/ ReadReturn

Spec == Init /\ [][Next]_vars

---------------------------------------------------------------------------
(* The claims *)

Supported == {"linux", "darwin", "windows"}

XselPair == <<<<"xsel", "-b", "-o">>, <<"xsel", "-b", "-i">>>>
XclipPair == <<<<"xclip", "-selection", "clipboard", "-o">>,
               <<"xclip", "-selection", "clipboard", "-i">>>>

\* C1: for every OS of the enumeration, new Clipboard(os, registry) on the
\* registry getImplementations built returns exactly when the OS is linux,
\* darwin or windows, and then binds that OS's entry, whose read and write
\* commands are both non-empty; for every other OS it throws
\* "Clipboard: unsupported OS: <os>".
C1_Construction ==
    construction.tag # None =>
        /\ (construction.tag = "return") <=> (os \in Supported)
        /\ construction.tag = "return" =>
               /\ clipboard.defined
               /\ clipboard.impl = construction.impl
               /\ clipboard.impl.os = os
               /\ Len(clipboard.impl.readCommand) > 0
               /\ Len(clipboard.impl.writeCommand) > 0
               /\ clipboard.impl.readCommand[1] # ""
               /\ clipboard.impl.writeCommand[1] # ""
        /\ construction.tag # "return" =>
               /\ construction.tag = "throw"
               /\ os \in {"freebsd", "netbsd", "aix", "solaris", "illumos"}
               /\ construction.error = <<"Clipboard: unsupported OS: ", os>>
               /\ ~clipboard.defined

C1_Witness ==
    /\ os = "solaris"
    /\ construction.tag = "throw"
    /\ construction.error = <<"Clipboard: unsupported OS: ", "solaris">>

\* C2: commandExists never throws; it returns true exactly when the probing
\* process (where on windows, which elsewhere) was spawned and exited with
\* code 0, and false when it exited with another code or could not be
\* spawned.
C2_CommandExistsTotal ==
    lastProbe # NoProbe =>
        /\ lastProbe.result.tag = "return"
        /\ lastProbe.result.value =
               (lastProbe.outcome.spawned /\ lastProbe.outcome.code = 0)
        /\ lastProbe.command[1] = (IF os = "windows" THEN "where" ELSE "which")

C2_Witness ==
    /\ lastProbe.command = <<"which", "no-such-command">>
    /\ ~lastProbe.outcome.spawned
    /\ lastProbe.result = [tag |-> "return", value |-> FALSE]

\* the read and write commands both exited with 0, the readText call began
\* when no writeText was in flight and none began before it ended, and the
\* last writeText to return wrote "hello world" and overlapped no other
RoundTripCase ==
    /\ rpc = "done"
    /\ rres.tag = "return"
    /\ rchild.code = 0
    /\ rbase.quiet
    /\ rbase.last.writer # None
    /\ ~rbase.last.overlapped
    /\ rbase.last.code = 0
    /\ rbase.last.data = HelloWorld

\* C3: with working commands and no other writer, a readText that follows a
\* completed writeText("hello world") returns exactly "hello world".
C3_RoundTrip == RoundTripCase => rres.value = HelloWorld

C3_Witness ==
    /\ RoundTripCase
    /\ impl.os = "windows"
    /\ rchild.stdout = Encode(HelloWorld \o <<CR, LF>>)
    /\ rres.value = HelloWorld

BothDone ==
    /\ \A w \in Writers : wpc[w] = "done" /\ child[w].code = 0

\* C4: once two writeText calls have both returned, their write commands
\* having exited with 0, the clipboard holds the text of one of them,
\* namely of the one whose write command terminated last, however their
\* steps were interleaved.
C4_LastWriterWins ==
    BothDone =>
        /\ clip \in {wdata[w] : w \in Writers}
        /\ lastExit \in Writers
        /\ clip = wdata[lastExit]

\* the two calls overlapped: "B" was spawned second and yet "A" won
C4_Witness ==
    /\ BothDone
    /\ wover["A"] /\ wover["B"]
    /\ wdata["A"] = <<65>>
    /\ wdata["B"] = <<66>>
    /\ lastDone.writer = "B"
    /\ lastExit = "A"
    /\ clip = <<65>>

WriteCause(w) ==
    CASE wfail[w] = "spawn" -> <<"NotFound", impl.writeCommand[1]>>
      [] wfail[w] = "write" -> <<"BrokenPipe">>
      [] wfail[w] = "close" -> <<"stream errored">>
      [] OTHER -> <<>>

\* C5: a writeText whose command cannot be spawned, or whose write to or
\* close of the child's stdin fails, throws "Failed to read from
\* clipboard: " followed by the cause, and throws for no other reason; a
\* writeText that returns has sent the whole encoded text, closed stdin and
\* seen the child terminate.
C5_WriteErrors ==
    \A w \in Writers :
        /\ wfail[w] # None =>
               /\ wres[w].tag = "throw"
               /\ wres[w].error =
                      <<"Failed to read from clipboard: ", WriteCause(w)>>
        /\ wres[w].tag = "throw" => wfail[w] # None
        /\ wres[w].tag = "return" =>
               /\ stdin[w].bytes = Encode(wdata[w])
               /\ stdin[w].closed
               /\ child[w].state = "exited"

C5_Witness ==
    /\ impl.writeCommand[1] = "pbcopy"
    /\ wfail["A"] = "spawn"
    /\ wres["A"].error =
           <<"Failed to read from clipboard: ", <<"NotFound", "pbcopy">>>>
    /\ wfail["B"] = "close"
    /\ wres["B"].tag = "throw"

\* C6: readText returns a text only when the read command was spawned and
\* ran to completion successfully; it never returns a substitute, such as
\* the empty string, when the read failed.
C6_NoSubstitute ==
    rres.tag = "return" => rchild.code = 0

\* DropCR: the text without its carriage returns, by recursion on the text
RECURSIVE DropCR(_)
DropCR(text) ==
    IF text = <<>> THEN <<>>
    ELSE IF Head(text) = CR THEN DropCR(Tail(text))
    ELSE <<Head(text)>> \o DropCR(Tail(text))

EndsWithLF(text) == text # <<>> /\ text[Len(text)] = LF

\* "line1\r\nline2\r\n" and "line1\nline2"
Line1Line2Raw ==
    <<108, 105, 110, 101, 49, 13, 10, 108, 105, 110, 101, 50, 13, 10>>
Line1Line2 == <<108, 105, 110, 101, 49, 10, 108, 105, 110, 101, 50>>

\* C7: on windows readText returns the decoded output without any carriage
\* return and without one trailing newline, if it had one, and no more (so
\* "line1\r\nline2\r\n" gives "line1\nline2"); on linux and darwin it
\* returns the decoded output as it is.
C7_PostProcess ==
    ppDone =>
        LET text == Decode(ppStdout)
            kept == DropCR(text)
        IN  IF ppImpl.os = "windows"
            THEN /\ ppText \o (IF EndsWithLF(kept) THEN <<LF>> ELSE <<>>) = kept
                 /\ postProcess(ppImpl, Line1Line2Raw) = Line1Line2
            ELSE ppText = text

\* two carriage returns to strip, two newlines at the end: one is left
C7_Witness ==
    /\ ppDone
    /\ ppImpl.os = "windows"
    /\ ppStdout = <<CR, CR, LF, LF>>
    /\ ppText = <<LF>>

\* C8: the linux entry of the registry reads and writes with the same
\* utility: it is the xsel pair or the xclip pair, whatever the probes
\* returned.
C8_SameUtility ==
    pc \in {"resolved", "ready"} =>
        <<implementations["linux"].readCommand,
          implementations["linux"].writeCommand>> \in {XselPair, XclipPair}

AfterInit == {"rejected", "reported"}

\* C9: when the OS has no registry entry, a warning is emitted, the process
\* keeps running, and every later call of readText or writeText through the
\* exports fails with the "unsupported OS" error.
C9_NonFatal ==
    (os \notin Supported /\ pc \in AfterInit) =>
        /\ warned
        /\ alive
        /\ \A i \in 1..Len(calls) :
               calls[i].at \in AfterInit =>
                   /\ calls[i].result.tag = "throw"
                   /\ calls[i].result.error =
                          <<"Clipboard: unsupported OS: ", os>>

\* C10: on a supported OS the facade is constructed once, its bound
\* implementation never changes, and every call through the exports, at any
\* point after the module is loaded, is delegated to that implementation.
C10_AlwaysConstructed ==
    os \in Supported =>
        /\ constructed <= 1
        /\ clipboard.defined => clipboard.impl = implementations[os]
        /\ \A i \in 1..Len(calls) :
               /\ calls[i].result.tag = "delegated"
               /\ calls[i].result.impl.os = os

=============================================================================
